---- MODULE Spec2Model ----
(***************************************************************************)
(* A model of pybgl/classes/block.py: the Block decoder (Block.__init__,   *)
(* Block.decode) and the mining BlockTemplate (construction, scan_tx_list, *)
(* create_coinbase_transaction, split_coinbase, get_job, submit_job).      *)
(*                                                                         *)
(* Representation.                                                         *)
(*   byte      <<b, <<>>>> with b in 0..255, or, for byte i (1..32) of a   *)
(*             digest, <<256 + i, t>>: t is the digest's term in byte 1    *)
(*             and empty in the others                                     *)
(*   bytes     a sequence of bytes                                         *)
(*   hex char  <<v, t, pos>>: for a plain byte its nibble v (pos 0 high,   *)
(*             pos 1 low); for a digest byte <<256 + i, t, pos>>           *)
(*   str       a sequence of hex chars (two per byte)                      *)
(*   big       [hi, lo], the natural hi * 2^20 + lo (Python's integers are *)
(*             unbounded; the base subsidy does not fit 32 bits)           *)
(* Digests are free terms over their input, so two digests are equal only  *)
(* when their inputs are.                                                  *)
(***************************************************************************)
EXTENDS Integers, Sequences, FiniteSets, TLC

VARIABLES tmpl, call, ret, block, blk_in

vars == <<tmpl, call, ret, block, blk_in>>

(***************************************************************************)
(* Bounds of the model.                                                    *)
(***************************************************************************)
\* the longest pending-transaction list of a template
MaxTx == 3
\* the last halving era a template is built in
MaxEra == 36
\* the most transactions a decoded block holds
MaxBlockTx == 2

(***************************************************************************)
(* Program constants.                                                      *)
(***************************************************************************)
HalvingInterval == 52500
SubsidyCoins == 200
CoinUnits == 100000000
HeightPrefixLimit == 32767
ScriptSigOffset == 42
MaxScriptSig == 100
HeaderSize == 80

(***************************************************************************)
(* Sequences.                                                              *)
(***************************************************************************)
Rev(s) == [i \in 1..Len(s) |-> s[Len(s) + 1 - i]]

Take(s, n) == SubSeq(s, 1, IF n < 0 THEN 0 ELSE IF n > Len(s) THEN Len(s) ELSE n)

Drop(s, n) == SubSeq(s, (IF n < 0 THEN 0 ELSE n) + 1, Len(s))

Rep(x, n) == [i \in 1..n |-> x]

RECURSIVE Flat(_)
Flat(ss) == IF ss = <<>> THEN <<>> ELSE Head(ss) \o Flat(Tail(ss))

RECURSIVE SumOf(_)
SumOf(s) == IF s = <<>> THEN 0 ELSE Head(s) + SumOf(Tail(s))

(***************************************************************************)
(* Bytes and hex strings.                                                  *)
(***************************************************************************)
B(b) == <<b, <<>>>>

Bs(ints) == [i \in 1..Len(ints) |-> B(ints[i])]

Zeros(n) == Rep(B(0), n)

\* bytes.hex(): two characters per byte, high nibble first
HexOfByte(x) ==
    IF x[1] < 256 THEN << <<x[1] \div 16, <<>>, 0>>, <<x[1] % 16, <<>>, 1>> >>
    ELSE << <<x[1], x[2], 0>>, <<x[1], <<>>, 1>> >>

Hex(bs) == [i \in 1..(2 * Len(bs)) |-> HexOfByte(bs[(i + 1) \div 2])[2 - (i % 2)]]

\* bytes.fromhex / bytes_from_hex: one byte per pair of characters; a pair that
\* is not the two characters of one byte decodes to a byte no encoder produces.
ByteOfHex(c1, c2) ==
    IF c1[3] = 0 /\ c2[3] = 1 /\ c1[1] < 16 /\ c2[1] < 16 /\ c1[2] = <<>> /\ c2[2] = <<>>
    THEN B(16 * c1[1] + c2[1])
    ELSE IF c1[3] = 0 /\ c2[3] = 1 /\ c1[1] > 256 /\ c1[1] = c2[1] /\ c2[2] = <<>>
    THEN <<c1[1], c1[2]>>
    ELSE B(0 - 1)

bytes_from_hex(h) == [i \in 1..(Len(h) \div 2) |-> ByteOfHex(h[2 * i - 1], h[2 * i])]

\* int.to_bytes(n, "little") / (n, "big") of a small non-negative integer
RECURSIVE IntLE(_, _)
IntLE(v, n) == IF n = 0 THEN <<>> ELSE <<v % 256>> \o IntLE(v \div 256, n - 1)

to_bytes_little(v, n) == Bs(IntLE(v, n))

to_bytes_big(v, n) == Rev(to_bytes_little(v, n))

(***************************************************************************)
(* pybgl.functions.tools: the byte-order helpers and the varint.           *)
(***************************************************************************)
rh2s(raw_hash) == Hex(Rev(raw_hash))

s2rh(hash_string) == Rev(bytes_from_hex(hash_string))

\* the bytes of every 4-byte word swapped, the words kept in place
reverse_hash(raw_hash) ==
    [i \in 1..Len(raw_hash) |-> raw_hash[4 * ((i - 1) \div 4) + 4 - ((i - 1) % 4)]]

s2rh_step4(hash_string) == reverse_hash(bytes_from_hex(hash_string))

int_to_var_int(i) ==
    IF i < 253 THEN to_bytes_little(i, 1)
    ELSE IF i <= 65535 THEN <<B(253)>> \o to_bytes_little(i, 2)
    ELSE <<B(254)>> \o to_bytes_little(i, 4)

var_int_len(n) == IF n < 253 THEN 1 ELSE IF n <= 65535 THEN 3 ELSE 5

(***************************************************************************)
(* Digests: pybgl.functions.hash.  A digest is 32 bytes; its first byte    *)
(* carries the digest's term, the algorithm's tag and the input, and the   *)
(* bytes 2..32 carry their position only.                                  *)
(***************************************************************************)
Digest(tag, bs) ==
    [i \in 1..32 |-> IF i = 1 THEN <<257, <<B(tag)>> \o bs>> ELSE B(256 + i)]

double_sha256(bs) == Digest(1000, bs)

sha3_256(bs) == Digest(1001, bs)

(***************************************************************************)
(* Naturals beyond 32 bits: hi * 2^20 + lo.                                *)
(***************************************************************************)
Limb == 2 ^ 20

Big(n) == [hi |-> n \div Limb, lo |-> n % Limb]

BigMulSmall(x, k) ==
    [hi |-> x.hi * k + (x.lo * k) \div Limb, lo |-> (x.lo * k) % Limb]

BigAddSmall(x, n) ==
    [hi |-> x.hi + (x.lo + n) \div Limb, lo |-> (x.lo + n) % Limb]

BigShr1(x) == [hi |-> x.hi \div 2, lo |-> (x.hi % 2) * (Limb \div 2) + x.lo \div 2]

\* x >> n
RECURSIVE BigShr(_, _)
BigShr(x, n) == IF n = 0 \/ x = Big(0) THEN x ELSE BigShr(BigShr1(x), n - 1)

BigLeq(x, y) == x.hi < y.hi \/ (x.hi = y.hi /\ x.lo <= y.lo)

\* struct "<Q": 8 bytes, little-endian
BigLE8(x) ==
    Bs(<< x.lo % 256, (x.lo \div 256) % 256, x.lo \div 65536 + 16 * (x.hi % 16),
          (x.hi \div 16) % 256, (x.hi \div 4096) % 256, (x.hi \div 1048576) % 256,
          x.hi \div 268435456, 0 >>)

(***************************************************************************)
(* pybgl.functions.block: the merkle engine and the compact target.        *)
(***************************************************************************)
IsStr(x) == x # <<>> /\ Len(x[1]) = 3

\* an id given as a string is a display-order hex id
AsRaw(h) == IF IsStr(h) THEN s2rh(h) ELSE h

\* one level up: neighbours paired, the last node of an odd level paired with itself
NextLevel(lv) ==
    [i \in 1..((Len(lv) + 1) \div 2) |->
        double_sha256(lv[2 * i - 1] \o (IF 2 * i <= Len(lv) THEN lv[2 * i] ELSE lv[2 * i - 1]))]

RECURSIVE RootOfLevel(_)
RootOfLevel(lv) == IF Len(lv) = 1 THEN lv[1] ELSE RootOfLevel(NextLevel(lv))

\* full-tree reduction
merkle_root(tx_hash_list) ==
    RootOfLevel([i \in 1..Len(tx_hash_list) |-> AsRaw(tx_hash_list[i])])

\* per level, lowest first, the sibling of the node on the coinbase's lineage
RECURSIVE BranchesOfLevel(_)
BranchesOfLevel(lv) ==
    IF Len(lv) <= 1 THEN <<>> ELSE <<Hex(lv[2])>> \o BranchesOfLevel(NextLevel(lv))

merkle_branches(tx_hash_list) ==
    BranchesOfLevel([i \in 1..Len(tx_hash_list) |-> AsRaw(tx_hash_list[i])])

RECURSIVE merkle_root_from_branches(_, _)
merkle_root_from_branches(branches, coinbase_hash) ==
    IF branches = <<>> THEN coinbase_hash
    ELSE merkle_root_from_branches(Tail(branches),
             double_sha256(coinbase_hash \o
                 (IF IsStr(Head(branches)) THEN bytes_from_hex(Head(branches))
                  ELSE Head(branches))))

\* the 256-bit target of compact bits (4 bytes, exponent first), as 32 bytes
\* little-endian; an exponent outside 3..32 is a domain error
bits_to_target(bits4) ==
    LET e == bits4[1][1] IN
    IF e < 3 \/ e > 32 THEN <<>>
    ELSE Zeros(e - 3) \o <<bits4[4], bits4[3], bits4[2]>> \o Zeros(32 - e)

\* a float quotient, kept as a function of the target alone
target_to_difficulty(target) == [maxTargetOver |-> target]

(***************************************************************************)
(* pybgl.classes.transaction: what the template uses of Transaction.       *)
(***************************************************************************)
\* the output script of an address: a version-0 witness program of 20 bytes
address_to_script(address) == Bs(<<0, 20>>) \o Rep(B(address), 20)

\* Transaction(): version 1, no inputs, no outputs, lock time 0
Transaction == [version |-> 1, vIn |-> <<>>, vOut |-> <<>>, lockTime |-> 0,
                coinbase |-> FALSE, txId |-> <<>>]

\* add_input: the defaults are the null outpoint and the final sequence
add_input(tx, script_sig) ==
    [tx EXCEPT !.vIn = @ \o <<[txId |-> Hex(Zeros(32)), vOut |-> Rep(B(255), 4),
                                scriptSig |-> Hex(script_sig),
                                sequence |-> Rep(B(255), 4)]>>]

add_output(tx, amount, script_pub_key) ==
    [tx EXCEPT !.vOut = @ \o <<[value |-> amount, scriptPubKey |-> Hex(script_pub_key)]>>]

SerIn(i) ==
    s2rh(i.txId) \o i.vOut \o int_to_var_int(Len(i.scriptSig) \div 2)
        \o bytes_from_hex(i.scriptSig) \o i.sequence

SerOut(o) ==
    BigLE8(o.value) \o int_to_var_int(Len(o.scriptPubKey) \div 2)
        \o bytes_from_hex(o.scriptPubKey)

\* serialize(segwit=0, hex=0): the non-witness wire form
serialize(tx) ==
    to_bytes_little(tx.version, 4)
        \o int_to_var_int(Len(tx.vIn)) \o Flat([k \in 1..Len(tx.vIn) |-> SerIn(tx.vIn[k])])
        \o int_to_var_int(Len(tx.vOut)) \o Flat([k \in 1..Len(tx.vOut) |-> SerOut(tx.vOut[k])])
        \o to_bytes_little(tx.lockTime, 4)

\* commit(): the id is the digest of the non-witness form, kept in display order
commit(tx) == [tx EXCEPT !.txId = rh2s(double_sha256(serialize(tx)))]

\* Transaction(raw hex): the id of a transaction read from its wire form
TxIdOfRaw(cb) == rh2s(double_sha256(bytes_from_hex(cb)))

(***************************************************************************)
(* BlockTemplate.                                                          *)
(***************************************************************************)
\* the subsidy halved one block late: (height - 1) // 52500
block_reward_late(height) ==
    BigShr(BigMulSmall(Big(CoinUnits), SubsidyCoins),
           (IF height = 0 THEN 0 ELSE height - 1) \div HalvingInterval)

\* 200 * 100000000 >> height // 52500
block_reward(height) ==
    BigShr(BigMulSmall(Big(CoinUnits), SubsidyCoins), height \div HalvingInterval)

\* scan_tx_list without the reset of its totals
scan_tx_list_accumulating(self) ==
    LET txs == self.transactions
        tx_fee == SumOf([i \in 1..Len(txs) |-> txs[i].fee])
    IN [self EXCEPT
          !.weight = @ + SumOf([i \in 1..Len(txs) |-> txs[i].weight]),
          !.sigop = @ + SumOf([i \in 1..Len(txs) |-> txs[i].sigops]),
          !.txid_list = @ \o [i \in 1..Len(txs) |-> s2rh(txs[i].txid)],
          !.coinbasevalue = BigAddSmall(@, tx_fee \div 10)]

\* scan_tx_list: every total is recomputed from the pending transactions
scan_tx_list(self) ==
    LET txs == self.transactions
        tx_fee == SumOf([i \in 1..Len(txs) |-> txs[i].fee])
    IN [self EXCEPT
          !.weight = SumOf([i \in 1..Len(txs) |-> txs[i].weight]),
          !.sigop = SumOf([i \in 1..Len(txs) |-> txs[i].sigops]),
          !.txid_list = [i \in 1..Len(txs) |-> s2rh(txs[i].txid)],
          !.coinbasevalue = BigAddSmall(self.block_reward, tx_fee \div 10)]

\* calculate_commitment: the witness ids under a zero id for the coinbase
calculate_commitment(self, witness_reserved_value) ==
    LET txs == self.transactions
        wtxid_list == <<Zeros(32)>> \o [i \in 1..Len(txs) |-> s2rh(txs[i].hash)]
    IN double_sha256(merkle_root(wtxid_list) \o witness_reserved_value)

\* the script-sig create_coinbase_transaction assembles
coinbase_script(self) ==
    LET k == IF self.height > HeightPrefixLimit THEN 3 ELSE 2
    IN <<B(k)>> \o to_bytes_little(self.height, 3) \o self.coinbase_message
         \o Zeros(self.extranonce1_size + self.extranonce2_size)

\* what create_coinbase_transaction raises, "none" when it returns
coinbase_error(self) ==
    IF self.height < 0 \/ self.height >= 256 * 256 * 256 THEN "OverflowError"
    ELSE IF Len(coinbase_script(self)) > MaxScriptSig THEN "AssertionError"
    ELSE "none"

create_coinbase_transaction(self) ==
    LET tx1 == add_input(Transaction, coinbase_script(self))
        commitment == calculate_commitment(self, Zeros(32))
        tx2 == add_output(tx1, self.coinbasevalue,
                          address_to_script(self.coinbase_output_address))
        tx3 == add_output(tx2, Big(0), Bs(<<106, 36, 170, 33, 169, 237>>) \o commitment)
    IN commit([tx3 EXCEPT !.coinbase = TRUE])

\* split_coinbase with the script-length byte left out of the offset
split_coinbase_short(self) ==
    LET tx == serialize(self.coinbase_tx)
        len_coinbase == Len(self.coinbase_tx.vIn[1].scriptSig) \div 2
        extranonce_len == self.extranonce1_size + self.extranonce2_size
    IN << Hex(Take(tx, ScriptSigOffset - 1 + len_coinbase - extranonce_len)),
          Hex(Drop(tx, ScriptSigOffset - 1 + len_coinbase)) >>

\* split_coinbase: the wire form up to the placeholder, and from the script's end
split_coinbase(self) ==
    LET tx == serialize(self.coinbase_tx)
        len_coinbase == Len(self.coinbase_tx.vIn[1].scriptSig) \div 2
        extranonce_len == self.extranonce1_size + self.extranonce2_size
    IN << Hex(Take(tx, ScriptSigOffset + len_coinbase - extranonce_len)),
          Hex(Drop(tx, ScriptSigOffset + len_coinbase)) >>

\* the branch list of the pending ids alone, the coinbase left out
init_merkle_branches_no_coinbase(self) == merkle_branches(self.txid_list)

\* the branch list __init__ keeps
init_merkle_branches(self) ==
    merkle_branches(<<self.coinbase_tx.txId>> \o self.txid_list)

\* BlockTemplate.__init__; a construction that raises leaves only the error
BlockTemplate(data, coinbase_output_address, testnet, coinbase_message, extranonce1, extranonce1_size, extranonce2_size) ==
    LET s0 == [error |-> "none",
               testnet |-> testnet,
               version |-> Hex(to_bytes_big(data.version, 4)),
               previous_block_hash |-> Hex(reverse_hash(s2rh(data.previousblockhash))),
               time |-> Hex(to_bytes_big(data.curtime, 4)),
               bits |-> data.bits,
               height |-> data.height,
               block_reward |-> block_reward(data.height),
               coinbasevalue |-> block_reward(data.height),
               extranonce1 |-> extranonce1,
               extranonce1_size |-> extranonce1_size,
               extranonce2 |-> Hex(Zeros(4)),
               extranonce2_size |-> extranonce2_size,
               coinbase_output_address |-> coinbase_output_address,
               sigoplimit |-> data.sigoplimit,
               weightlimit |-> data.weightlimit,
               sigop |-> 0,
               weight |-> 0,
               coinbase_message |-> coinbase_message,
               transactions |-> data.transactions,
               txid_list |-> <<>>,
               coinbase_tx |-> Transaction,
               coinb1 |-> <<>>,
               coinb2 |-> <<>>,
               target |-> <<>>,
               difficulty |-> target_to_difficulty(<<>>),
               merkle_branches |-> <<>>]
        s1 == scan_tx_list(s0)
        s2 == [s1 EXCEPT !.coinbase_tx = create_coinbase_transaction(s1)]
        s3 == [s2 EXCEPT !.coinb1 = split_coinbase(s2)[1], !.coinb2 = split_coinbase(s2)[2]]
        s4 == [s3 EXCEPT !.target = bits_to_target(bytes_from_hex(s3.bits))]
        s5 == [s4 EXCEPT !.difficulty = target_to_difficulty(s4.target)]
    IN IF data.height < 0 THEN [error |-> "ValueError"]
       ELSE IF coinbase_error(s1) # "none" THEN [error |-> coinbase_error(s1)]
       ELSE [s5 EXCEPT !.merkle_branches = init_merkle_branches(s5)]

\* get_job: the job list, and the template as the call leaves it
get_job(self, job_id, clean_jobs) ==
    [self |-> self,
     result |-> [job_id |-> job_id, prevhash |-> self.previous_block_hash,
                 coinb1 |-> self.coinb1, coinb2 |-> self.coinb2,
                 merkle_branch |-> self.merkle_branches, version |-> self.version,
                 nbits |-> self.bits, ntime |-> self.time, clean_jobs |-> clean_jobs]]

\* the coinbase submit_job reassembles, a hex string
submit_cb(self, extra_nonce_1, extra_nonce_2) ==
    self.coinb1 \o extra_nonce_1 \o extra_nonce_2 \o self.coinb2

\* the root from the id of the coinbase as constructed, not as reassembled
submit_merkle_root_stale(self, cb) ==
    merkle_root_from_branches(self.merkle_branches, s2rh(self.coinbase_tx.txId))

\* the merkle root submit_job places in the header
submit_merkle_root(self, cb) ==
    merkle_root_from_branches(self.merkle_branches, s2rh(TxIdOfRaw(cb)))

\* the header submit_job assembles
submit_header(self, cb, nonce, time) ==
    s2rh(self.version) \o s2rh_step4(self.previous_block_hash)
        \o submit_merkle_root(self, cb) \o s2rh(time) \o s2rh(self.bits) \o s2rh(nonce)

\* the block with the coinbase left out of the transaction count
submit_block_miscounted(self, header, cb) ==
    Hex(header) \o Hex(int_to_var_int(Len(self.transactions))) \o cb
        \o Flat([i \in 1..Len(self.transactions) |-> self.transactions[i].data])

\* the block submit_job serializes, a hex string
submit_block(self, header, cb) ==
    Hex(header) \o Hex(int_to_var_int(Len(self.transactions) + 1)) \o cb
        \o Flat([i \in 1..Len(self.transactions) |-> self.transactions[i].data])

\* submit_job keeping the share's extranonce2 and time on the template
submit_job_storing(self, extra_nonce_1, extra_nonce_2, nonce, time) ==
    LET cb == submit_cb(self, extra_nonce_1, extra_nonce_2)
        header == submit_header(self, cb, nonce, time)
    IN [self |-> [self EXCEPT !.extranonce2 = extra_nonce_2, !.time = time],
        result |-> [hash |-> Hex(sha3_256(header)), block |-> submit_block(self, header, cb)]]

\* submit_job: (hash, block), and the template as the call leaves it
submit_job(self, extra_nonce_1, extra_nonce_2, nonce, time) ==
    LET cb == submit_cb(self, extra_nonce_1, extra_nonce_2)
        header == submit_header(self, cb, nonce, time)
    IN [self |-> self,
        result |-> [hash |-> Hex(sha3_256(header)), block |-> submit_block(self, header, cb)]]

(***************************************************************************)
(* The inputs the model draws.                                             *)
(***************************************************************************)
None == [ty |-> "None", v |-> <<>>]

\* a pending transaction as the node lists it: ids in display order, raw data in hex
PoolTx(n) ==
    [txid |-> Hex([i \in 1..32 |-> B((16 * n + i) % 256)]),
     hash |-> Hex([i \in 1..32 |-> B((16 * n + 2 * i) % 256)]),
     fee |-> IF n = 1 THEN 15 ELSE IF n = 2 THEN 7 ELSE 1000 * n,
     weight |-> 400 + 4 * n,
     sigops |-> n,
     data |-> Hex(Rep(B(n), 4 + n))]

Pool == {PoolTx(n) : n \in 1..MaxTx}

\* the lists of pending transactions, at most MaxTx long
RECURSIVE ListsUpTo(_)
ListsUpTo(n) ==
    IF n = 0 THEN {<<>>}
    ELSE LET shorter == ListsUpTo(n - 1)
         IN shorter \cup {Append(l, t) : l \in {x \in shorter : Len(x) = n - 1},
                                          t \in Pool}

\* the lists the node sends: distinct transactions, in either order of the pool
TxLists ==
    {l \in ListsUpTo(MaxTx) :
        \/ \A i \in 1..(Len(l) - 1) : l[i].sigops < l[i + 1].sigops
        \/ \A i \in 1..(Len(l) - 1) : l[i].sigops > l[i + 1].sigops}

TemplateHeights == {1, HeightPrefixLimit, HeightPrefixLimit + 1, 256 * 256 * 256}

Messages == {<<>>, Bs(<<47, 80>>), Rep(B(77), MaxScriptSig - 3)}

ExtranonceSizes == {<<4, 4>>, <<1, 2>>}

NodeData(height, txs) ==
    [version |-> 536870912,
     previousblockhash |-> Hex([i \in 1..32 |-> B(100 + i)]),
     curtime |-> 1600000000,
     bits |-> Hex(Bs(<<29, 0, 255, 255>>)),
     height |-> height,
     sigoplimit |-> 80000,
     weightlimit |-> 4000000,
     transactions |-> txs]

\* the hex strings of n bytes a miner may send
HexOfLen(n) == {Hex(Rep(B(b), n)) : b \in {0, 171}}

\* the nonce and the time of a share: the template's own time, or a later one
NonceTime(self, own) ==
    IF own THEN <<Hex(Bs(<<0, 0, 0, 1>>)), self.time>>
    ELSE <<Hex(Bs(<<18, 52, 86, 120>>)), Hex(Bs(<<95, 94, 16, 1>>))>>

(***************************************************************************)
(* The template's life: construction, then scans, job exports and share    *)
(* submissions in any order.                                               *)
(***************************************************************************)
InitTemplate ==
    /\ \E h \in TemplateHeights, txs \in TxLists, m \in Messages, sz \in ExtranonceSizes :
          tmpl = BlockTemplate(NodeData(h, txs), 7, FALSE, m, Hex(Zeros(4)), sz[1], sz[2])
    /\ call = [op |-> "__init__"]
    /\ ret = None
    /\ block = None
    /\ blk_in = None

ScanTxList ==
    /\ tmpl.error = "none"
    /\ tmpl' = scan_tx_list(tmpl)
    /\ call' = [op |-> "scan_tx_list"]
    /\ ret' = None
    /\ UNCHANGED <<block, blk_in>>

GetJob ==
    /\ tmpl.error = "none"
    /\ \E job_id \in {1}, clean_jobs \in BOOLEAN :
          LET r == get_job(tmpl, job_id, clean_jobs) IN
          /\ tmpl' = r.self
          /\ ret' = r.result
          /\ call' = [op |-> "get_job", job_id |-> job_id, clean_jobs |-> clean_jobs]
    /\ UNCHANGED <<block, blk_in>>

SubmitJob ==
    /\ tmpl.error = "none"
    /\ \E e1 \in HexOfLen(tmpl.extranonce1_size), e2 \in HexOfLen(tmpl.extranonce2_size) :
          LET nt == NonceTime(tmpl, e1 = e2)
              r == submit_job(tmpl, e1, e2, nt[1], nt[2]) IN
          /\ tmpl' = r.self
          /\ ret' = r.result
          /\ call' = [op |-> "submit_job", extra_nonce_1 |-> e1, extra_nonce_2 |-> e2,
                      nonce |-> nt[1], time |-> nt[2]]
    /\ UNCHANGED <<block, blk_in>>

NextTemplate == ScanTxList \/ GetJob \/ SubmitJob

Spec == InitTemplate /\ [][NextTemplate]_vars

(***************************************************************************)
(* Claims about the template.                                              *)
(***************************************************************************)
Constructed == tmpl.error = "none"

PendingFees == SumOf([i \in 1..Len(tmpl.transactions) |-> tmpl.transactions[i].fee])

ScriptSig == bytes_from_hex(tmpl.coinbase_tx.vIn[1].scriptSig)

ExtranonceLen == tmpl.extranonce1_size + tmpl.extranonce2_size

\* C5: after construction and after any scan, the totals are those of the
\* pending transactions: coinbasevalue is the subsidy plus a tenth of the fees
\* rounded down, weight and sigop are the sums, txid_list has one id per
\* transaction in order, a further scan changes nothing, and the coinbase's
\* first output pays coinbasevalue.
C5_ScanTotals ==
    Constructed =>
        /\ tmpl.coinbasevalue = BigAddSmall(tmpl.block_reward, PendingFees \div 10)
        /\ tmpl.weight = SumOf([i \in 1..Len(tmpl.transactions) |-> tmpl.transactions[i].weight])
        /\ tmpl.sigop = SumOf([i \in 1..Len(tmpl.transactions) |-> tmpl.transactions[i].sigops])
        /\ Len(tmpl.txid_list) = Len(tmpl.transactions)
        /\ \A i \in 1..Len(tmpl.transactions) :
              rh2s(tmpl.txid_list[i]) = tmpl.transactions[i].txid
        /\ scan_tx_list(tmpl) = tmpl
        /\ tmpl.coinbase_tx.vOut[1].value = tmpl.coinbasevalue

C5_Witness ==
    /\ Constructed
    /\ call.op = "scan_tx_list"
    /\ Len(tmpl.transactions) >= 2
    /\ PendingFees % 10 # 0
    /\ PendingFees \div 10 > 0

\* C4: the script-sig is a prefix byte, 2 for a height up to 0x7fff and 3
\* above, the height in exactly that many little-endian bytes, the message,
\* and the zero placeholder of both extranonces.
C4_HeightPush ==
    Constructed =>
        LET k == IF tmpl.height <= HeightPrefixLimit THEN 2 ELSE 3
        IN ScriptSig = <<B(k)>> \o to_bytes_little(tmpl.height, k)
                          \o tmpl.coinbase_message \o Zeros(ExtranonceLen)

\* the coinbase with the placeholder holding the given extranonces
CoinbaseWith(e1, e2) ==
    [tmpl.coinbase_tx EXCEPT !.vIn[1].scriptSig =
        Hex(Take(ScriptSig, Len(ScriptSig) - ExtranonceLen)) \o e1 \o e2]

\* C1: coinb1, the extranonces and coinb2 together are the non-witness wire
\* form of the coinbase with those extranonces in its placeholder; coinb1
\* ends where the placeholder begins and coinb2 starts where the script ends.
C1_SplitRejoins ==
    Constructed =>
        /\ \A e1 \in HexOfLen(tmpl.extranonce1_size), e2 \in HexOfLen(tmpl.extranonce2_size) :
              bytes_from_hex(tmpl.coinb1 \o e1 \o e2 \o tmpl.coinb2)
                  = serialize(CoinbaseWith(e1, e2))
        /\ bytes_from_hex(tmpl.coinb1 \o Hex(Zeros(ExtranonceLen)) \o tmpl.coinb2)
              = serialize(tmpl.coinbase_tx)
        /\ Len(tmpl.coinb1) = 2 * (ScriptSigOffset + Len(ScriptSig) - ExtranonceLen)
        /\ tmpl.coinb2 = Hex(Drop(serialize(tmpl.coinbase_tx), ScriptSigOffset + Len(ScriptSig)))
        /\ SubSeq(serialize(tmpl.coinbase_tx), ScriptSigOffset + 1,
                  ScriptSigOffset + Len(ScriptSig)) = ScriptSig
        /\ call.op = "submit_job" =>
              SubSeq(ret.block, 2 * (HeaderSize + 1) + 1,
                     2 * (HeaderSize + 1) + Len(tmpl.coinb1) + 2 * ExtranonceLen + Len(tmpl.coinb2))
                  = Hex(serialize(CoinbaseWith(call.extra_nonce_1, call.extra_nonce_2)))

C1_Witness ==
    /\ Constructed
    /\ call.op = "submit_job"
    /\ call.extra_nonce_1 # Hex(Zeros(tmpl.extranonce1_size))
    /\ call.extra_nonce_2 # Hex(Zeros(tmpl.extranonce2_size))
    /\ tmpl.coinbase_message # <<>>
    /\ tmpl.extranonce1_size # tmpl.extranonce2_size

\* the header of the block the last submit_job returned, and its merkle root
SubmittedBlock == bytes_from_hex(ret.block)

SubmittedHeader == Take(SubmittedBlock, HeaderSize)

SubmittedRoot == SubSeq(SubmittedHeader, 37, 68)

\* the raw id of the coinbase with the given extranonces in its placeholder
CoinbaseId(e1, e2) == double_sha256(serialize(CoinbaseWith(e1, e2)))

ZeroShare ==
    /\ call.op = "submit_job"
    /\ call.extra_nonce_1 = Hex(Zeros(tmpl.extranonce1_size))
    /\ call.extra_nonce_2 = Hex(Zeros(tmpl.extranonce2_size))

\* C2: the root replayed from the branch list and the coinbase id is the root
\* of the full tree over the coinbase id and the pending ids, for the list
\* the template keeps and for the one submit_job replays.
C2_BranchesGiveRoot ==
    Constructed =>
        LET L == <<s2rh(tmpl.coinbase_tx.txId)>> \o tmpl.txid_list
        IN /\ merkle_root_from_branches(merkle_branches(L), L[1]) = merkle_root(L)
           /\ merkle_root_from_branches(tmpl.merkle_branches, L[1]) = merkle_root(L)
           /\ ZeroShare => SubmittedRoot = merkle_root(L)

C2_Witness ==
    /\ Constructed
    /\ ZeroShare
    /\ Len(tmpl.transactions) = 2
    /\ Len(tmpl.merkle_branches) = 2

\* C10: the branch list is the same for every coinbase id, and the root in a
\* submitted header is the root of the full tree over the id of the
\* reassembled coinbase and the pending ids; with nothing pending the list is
\* empty and the root is that id.
C10_BranchesOutliveCoinbase ==
    Constructed =>
        /\ \A e1 \in HexOfLen(tmpl.extranonce1_size), e2 \in HexOfLen(tmpl.extranonce2_size) :
              merkle_branches(<<CoinbaseId(e1, e2)>> \o tmpl.txid_list) = tmpl.merkle_branches
        /\ call.op = "submit_job" =>
              SubmittedRoot = merkle_root(<<CoinbaseId(call.extra_nonce_1, call.extra_nonce_2)>>
                                              \o tmpl.txid_list)
        /\ tmpl.transactions = <<>> =>
              /\ tmpl.merkle_branches = <<>>
              /\ call.op = "submit_job" =>
                    SubmittedRoot = CoinbaseId(call.extra_nonce_1, call.extra_nonce_2)

C10_Witness ==
    /\ Constructed
    /\ call.op = "submit_job"
    /\ ~ZeroShare
    /\ Len(tmpl.transactions) = MaxTx
    /\ SubmittedRoot # merkle_root(<<s2rh(tmpl.coinbase_tx.txId)>> \o tmpl.txid_list)

\* C3: a submitted block is the 80-byte header, the count of the pending
\* transactions plus one, the reassembled coinbase and the pending
\* transactions' bytes in order; the header is version, previous hash, merkle
\* root, time, bits and nonce; the returned hash is the digest of the header.
C3_BlockLayout ==
    (Constructed /\ call.op = "submit_job") =>
        LET n == Len(tmpl.transactions)
            cb == bytes_from_hex(tmpl.coinb1 \o call.extra_nonce_1 \o call.extra_nonce_2
                                     \o tmpl.coinb2)
            raw == [i \in 1..n |-> bytes_from_hex(tmpl.transactions[i].data)]
            header == to_bytes_little(NodeData(0, <<>>).version, 4)
                        \o s2rh(NodeData(0, <<>>).previousblockhash)
                        \o merkle_root(<<CoinbaseId(call.extra_nonce_1, call.extra_nonce_2)>>
                                           \o tmpl.txid_list)
                        \o Rev(bytes_from_hex(call.time))
                        \o Rev(bytes_from_hex(NodeData(0, <<>>).bits))
                        \o Rev(bytes_from_hex(call.nonce))
        IN /\ Len(header) = HeaderSize
           /\ Len(ret.block) = 2 * Len(SubmittedBlock)
           /\ SubmittedBlock = header \o int_to_var_int(n + 1) \o cb \o Flat(raw)
           /\ Len(SubmittedBlock) = HeaderSize + var_int_len(n + 1) + Len(cb)
                                       + SumOf([i \in 1..n |-> Len(raw[i])])
           /\ ret.hash = Hex(sha3_256(header))

C3_Witness ==
    /\ Constructed
    /\ call.op = "submit_job"
    /\ Len(tmpl.transactions) = 2
    /\ tmpl.transactions[1].data # tmpl.transactions[2].data
    /\ call.time # tmpl.time
    /\ Len(SubmittedBlock) > HeaderSize + 1 + ScriptSigOffset + 2

\* the template built afresh from the inputs a template holds
Fresh(self) ==
    BlockTemplate(NodeData(self.height, self.transactions), self.coinbase_output_address,
                  self.testnet, self.coinbase_message, self.extranonce1,
                  self.extranonce1_size, self.extranonce2_size)

\* what a call returns on a template
ResultOf(c, self) ==
    IF c.op = "submit_job"
    THEN submit_job(self, c.extra_nonce_1, c.extra_nonce_2, c.nonce, c.time).result
    ELSE get_job(self, c.job_id, c.clean_jobs).result

\* C8: submit_job and get_job leave every field of the template as
\* construction set it, and return what they return on the template as
\* constructed, whatever calls came before.
C8_ReadOnly ==
    /\ [](Constructed =>
            LET fresh == Fresh(tmpl)
            IN /\ tmpl = fresh
               /\ call.op \in {"submit_job", "get_job"} => ret = ResultOf(call, fresh))
    /\ [][call'.op \in {"submit_job", "get_job"} => tmpl' = tmpl]_vars

C8_Witness ==
    /\ Constructed
    /\ call.op = "submit_job"
    /\ call.extra_nonce_2 # tmpl.extranonce2
    /\ call.time # tmpl.time
    /\ tmpl.transactions # <<>>

(***************************************************************************)
(* The subsidy schedule: templates for later and later heights.            *)
(***************************************************************************)
\* the heights sampled: the first, second and last block of every era
SubsidyHeights ==
    {k * HalvingInterval + d : k \in 0..MaxEra, d \in {0, 1, HalvingInterval - 1}}

TemplateAt(h) == BlockTemplate(NodeData(h, <<>>), 7, FALSE, <<>>, Hex(Zeros(4)), 4, 4)

InitSubsidy ==
    /\ tmpl = TemplateAt(0)
    /\ call = [op |-> "__init__"]
    /\ ret = None
    /\ block = None
    /\ blk_in = None

\* the node reports a later height and a new template is built for it
NewTemplate ==
    /\ \E h \in SubsidyHeights :
          /\ h > tmpl.height
          /\ h <= tmpl.height + HalvingInterval
          /\ tmpl' = TemplateAt(h)
    /\ call' = [op |-> "__init__"]
    /\ UNCHANGED <<ret, block, blk_in>>

SpecSubsidy == InitSubsidy /\ [][NewTemplate]_vars

\* the bits of a big, lowest first, without leading zeros
RECURSIVE BitsOf(_)
BitsOf(x) == IF x = Big(0) THEN <<>> ELSE <<x.lo % 2>> \o BitsOf(BigShr1(x))

\* 20000000000 in binary, lowest bit first
BaseSubsidyBits ==
    <<0, 0, 0, 0, 0, 0, 0, 0, 0, 0, 0, 1, 0, 0, 1, 1, 1, 1, 1, 0, 1, 0, 0,
      0, 0, 0, 0, 1, 0, 1, 0, 1, 0, 0, 1>>

Era(h) == h \div HalvingInterval

\* C6: the subsidy is the base subsidy shifted right by one bit per completed
\* halving interval: never larger at a later height, the same within an
\* interval, halved rounding down at every multiple of the interval, and 0
\* from the shift that exhausts the base subsidy's bits on.
C6_Subsidy ==
    /\ [](Constructed =>
            /\ BitsOf(tmpl.block_reward) = Drop(BaseSubsidyBits, Era(tmpl.height))
            /\ Era(tmpl.height) > Len(BaseSubsidyBits) => tmpl.block_reward = Big(0)
            /\ Era(tmpl.height) < Len(BaseSubsidyBits) => tmpl.block_reward # Big(0))
    /\ [][(Constructed /\ Constructed' /\ tmpl'.height >= tmpl.height) =>
            /\ BigLeq(tmpl'.block_reward, tmpl.block_reward)
            /\ Era(tmpl'.height) = Era(tmpl.height) => tmpl'.block_reward = tmpl.block_reward
            /\ Era(tmpl'.height) = Era(tmpl.height) + 1 =>
                  /\ tmpl'.block_reward.hi = tmpl.block_reward.hi \div 2
                  /\ tmpl'.block_reward.lo =
                        (tmpl.block_reward.hi % 2) * (Limb \div 2) + tmpl.block_reward.lo \div 2]_vars

C6_Witness ==
    /\ Constructed
    /\ call.op = "__init__"
    /\ tmpl.height = (Len(BaseSubsidyBits) + 1) * HalvingInterval
    /\ tmpl.block_reward = Big(0)

(***************************************************************************)
(* Block: a block read from its wire form, and its readable projection.    *)
(* A field that holds bytes, a string, an integer or nothing is a record    *)
(* [ty, v] with ty "bytes", "str", "int", "bool" or "None".                 *)
(***************************************************************************)
Bytes(v) == [ty |-> "bytes", v |-> v]

Str(v) == [ty |-> "str", v |-> v]

IntV(n) == [ty |-> "int", v |-> <<n>>]

Bool(b) == [ty |-> "bool", v |-> <<b>>]

\* struct "<L" and the 8-byte amounts, for values below 2^31
RECURSIVE IntFromLE(_)
IntFromLE(bs) == IF bs = <<>> THEN 0 ELSE Head(bs)[1] + 256 * IntFromLE(Tail(bs))

\* read_var_int and var_int_to_int at position p (counts below 253)
VarIntAt(s, p) == s[p][1]

\* the inputs of a transaction from position p: outpoint, script, sequence
RECURSIVE SkipIns(_, _, _)
SkipIns(s, p, k) ==
    IF k = 0 THEN p ELSE SkipIns(s, p + 36 + 1 + VarIntAt(s, p + 36) + 4, k - 1)

\* the outputs from position p: the position after them and their total value
RECURSIVE ReadOuts(_, _, _)
ReadOuts(s, p, k) ==
    IF k = 0 THEN [next |-> p, amount |-> 0]
    ELSE LET rest == ReadOuts(s, p + 8 + 1 + VarIntAt(s, p + 8), k - 1)
         IN [next |-> rest.next, amount |-> IntFromLE(SubSeq(s, p, p + 7)) + rest.amount]

\* the items of one witness stack from position p
RECURSIVE SkipItems(_, _, _)
SkipItems(s, p, k) == IF k = 0 THEN p ELSE SkipItems(s, p + 1 + VarIntAt(s, p), k - 1)

\* the witness stacks of k inputs from position p
RECURSIVE SkipWitness(_, _, _)
SkipWitness(s, p, k) ==
    IF k = 0 THEN p ELSE SkipWitness(s, SkipItems(s, p + 1, VarIntAt(s, p)), k - 1)

\* Transaction(stream, format="raw"): the transaction read at position p
ReadTx(s, p) ==
    LET segwit == s[p + 4] = B(0) /\ s[p + 5] = B(1)
        body == IF segwit THEN p + 6 ELSE p + 4
        nIn == VarIntAt(s, body)
        afterIns == SkipIns(s, body + 1, nIn)
        outs == ReadOuts(s, afterIns + 1, VarIntAt(s, afterIns))
        afterWit == IF segwit THEN SkipWitness(s, outs.next, nIn) ELSE outs.next
        stripped == SubSeq(s, p, p + 3) \o SubSeq(s, body, outs.next - 1)
                        \o SubSeq(s, afterWit, afterWit + 3)
    IN [next |-> afterWit + 4,
        tx |-> [format |-> "raw", testnet |-> FALSE, segwit |-> segwit,
                txId |-> Bytes(double_sha256(stripped)),
                amount |-> outs.amount,
                bSize |-> Len(stripped),
                size |-> afterWit + 4 - p]]

\* Transaction.decode: the id becomes a display-order string
tx_decode(tx, testnet) ==
    [tx EXCEPT !.format = "decoded",
               !.testnet = IF testnet = None THEN @ ELSE testnet.v[1],
               !.txId = IF @.ty = "bytes" THEN Str(rh2s(@.v)) ELSE @]

\* the transactions of a block, read one after the other from position p
RECURSIVE ReadTxs(_, _, _)
ReadTxs(s, p, k) ==
    IF k = 0 THEN <<>>
    ELSE LET r == ReadTx(s, p) IN <<r.tx>> \o ReadTxs(s, r.next, k - 1)

\* get_stream: the bytes of raw bytes or of a hex string
get_stream(stream) == IF stream.ty = "str" THEN bytes_from_hex(stream.v) ELSE stream.v

\* decode converting a hash that is a string already once more
decode_again(self, testnet) ==
    LET rev(f) == IF f.ty = "bytes" THEN Str(rh2s(f.v)) ELSE f
    IN [self EXCEPT
          !.format = "decoded",
          !.testnet = IF testnet = None THEN @ ELSE testnet.v[1],
          !.hash = IF @.ty = "None" THEN @
                   ELSE Str(rh2s(IF @.ty = "str" THEN bytes_from_hex(@.v) ELSE @.v)),
          !.target = rev(@),
          !.previousBlockHash = rev(@),
          !.nextBlockHash = rev(@),
          !.merkleRoot = rev(@),
          !.header = IF @.ty = "bytes" THEN Str(Hex(@.v)) ELSE @,
          !.bits = rev(@),
          !.tx = [i \in DOMAIN @ |-> tx_decode(@[i], testnet)]]

\* Block.decode
decode(self, testnet) ==
    LET rev(f) == IF f.ty = "bytes" THEN Str(rh2s(f.v)) ELSE f
    IN [self EXCEPT
          !.format = "decoded",
          !.testnet = IF testnet = None THEN @ ELSE testnet.v[1],
          !.hash = rev(@),
          !.target = rev(@),
          !.previousBlockHash = rev(@),
          !.nextBlockHash = rev(@),
          !.merkleRoot = rev(@),
          !.header = IF @.ty = "bytes" THEN Str(Hex(@.v)) ELSE @,
          !.bits = rev(@),
          !.tx = [i \in DOMAIN @ |-> tx_decode(@[i], testnet)]]

\* the stripped size without the bytes of the transaction count
block_stripped_size_no_count(txs, tx_count) ==
    HeaderSize + SumOf([i \in 1..tx_count |-> txs[i].bSize])

\* the stripped size __init__ accumulates: header, transactions, their count
block_stripped_size(txs, tx_count) ==
    HeaderSize + SumOf([i \in 1..tx_count |-> txs[i].bSize]) + var_int_len(tx_count)

\* Block.__init__; nextBlockHash is a key only a caller sets, absent here
Block(raw_block, format, version, testnet) ==
    LET empty == [error |-> "none",
                  format |-> format,
                  testnet |-> testnet,
                  header |-> None,
                  hash |-> None,
                  version |-> version,
                  versionHex |-> Hex(to_bytes_big(version, 4)),
                  previousBlockHash |-> None,
                  merkleRoot |-> None,
                  tx |-> <<>>,
                  time |-> None,
                  bits |-> None,
                  nonce |-> None,
                  weight |-> 0,
                  size |-> HeaderSize,
                  strippedSize |-> HeaderSize,
                  amount |-> 0,
                  height |-> None,
                  difficulty |-> None,
                  targetDifficulty |-> None,
                  target |-> None,
                  nextBlockHash |-> [ty |-> "absent", v |-> <<>>]]
        s == get_stream(raw_block)
        tx_count == VarIntAt(s, HeaderSize + 1)
        txs == ReadTxs(s, HeaderSize + 2, tx_count)
        strippedSize == block_stripped_size(txs, tx_count)
        size == IF raw_block.ty = "bytes" THEN Len(raw_block.v) ELSE Len(raw_block.v) \div 2
        target == bits_to_target(Rev(SubSeq(s, 73, 76)))
        read == [empty EXCEPT
                   !.size = size,
                   !.format = "raw",
                   !.version = IntFromLE(SubSeq(s, 1, 4)),
                   !.versionHex = Hex(Rev(SubSeq(s, 1, 4))),
                   !.previousBlockHash = Bytes(SubSeq(s, 5, 36)),
                   !.merkleRoot = Bytes(SubSeq(s, 37, 68)),
                   !.time = IntV(IntFromLE(SubSeq(s, 69, 72))),
                   !.bits = Bytes(SubSeq(s, 73, 76)),
                   !.targetDifficulty = target_to_difficulty(target),
                   !.target = Bytes(target),
                   !.nonce = IntV(IntFromLE(SubSeq(s, 77, 80))),
                   !.header = Bytes(SubSeq(s, 1, HeaderSize)),
                   !.hash = Bytes(sha3_256(SubSeq(s, 1, HeaderSize))),
                   !.difficulty = target_to_difficulty(sha3_256(SubSeq(s, 1, HeaderSize))),
                   !.tx = txs,
                   !.amount = SumOf([i \in 1..tx_count |-> txs[i].amount]),
                   !.strippedSize = strippedSize,
                   !.weight = strippedSize * 3 + size]
    IN IF format \notin {"decoded", "raw"} THEN [error |-> "ValueError"]
       ELSE IF raw_block = None THEN empty
       ELSE IF format = "decoded" THEN decode(read, Bool(testnet)) ELSE read

(***************************************************************************)
(* The blocks the model reads.                                             *)
(***************************************************************************)
\* a transaction to put on the wire: n is its mark, outs its output values
TxShape(n) ==
    [mark |-> n,
     segwit |-> n = 2,
     nIn |-> IF n = 3 THEN 2 ELSE 1,
     outs |-> IF n = 1 THEN <<50>> ELSE IF n = 2 THEN <<7, 11>> ELSE <<1000 + n>>]

WireIn(d, k) ==
    Rep(B(d.mark), 32) \o to_bytes_little(k, 4) \o int_to_var_int(d.mark)
        \o Rep(B(81), d.mark) \o Rep(B(255), 4)

WireOut(d, k) ==
    to_bytes_little(d.outs[k], 8) \o int_to_var_int(2 + k) \o Rep(B(118), 2 + k)

\* the wire form of a shape, with or without its witness part
WireTx(d, witness) ==
    to_bytes_little(1, 4)
        \o (IF witness THEN Bs(<<0, 1>>) ELSE <<>>)
        \o int_to_var_int(d.nIn) \o Flat([k \in 1..d.nIn |-> WireIn(d, k)])
        \o int_to_var_int(Len(d.outs)) \o Flat([k \in 1..Len(d.outs) |-> WireOut(d, k)])
        \o (IF witness
            THEN Flat([k \in 1..d.nIn |-> int_to_var_int(1) \o int_to_var_int(4) \o Rep(B(48), 4)])
            ELSE <<>>)
        \o to_bytes_little(0, 4)

WireHeader ==
    to_bytes_little(536870912, 4) \o [i \in 1..32 |-> B(100 + i)] \o [i \in 1..32 |-> B(150 + i)]
        \o to_bytes_little(1600000000, 4) \o Bs(<<255, 255, 0, 29>>)
        \o to_bytes_little(305419896, 4)

WireBlock(shapes) ==
    WireHeader \o int_to_var_int(Len(shapes))
        \o Flat([i \in 1..Len(shapes) |-> WireTx(shapes[i], shapes[i].segwit)])

RECURSIVE ShapeLists(_)
ShapeLists(n) ==
    IF n = 0 THEN {<<>>}
    ELSE LET shorter == ShapeLists(n - 1)
         IN shorter \cup {Append(l, TxShape(k)) : l \in {x \in shorter : Len(x) = n - 1},
                                                   k \in 1..(MaxBlockTx + 1)}

InitBlock ==
    /\ \E shapes \in ShapeLists(MaxBlockTx), form \in {"bytes", "str", "None"},
          format \in {"decoded", "raw", "json"}, testnet \in BOOLEAN :
          /\ form = "None" => shapes = <<>>
          /\ blk_in = [raw_block |-> IF form = "bytes" THEN Bytes(WireBlock(shapes))
                                     ELSE IF form = "str" THEN Str(Hex(WireBlock(shapes)))
                                     ELSE None,
                       format |-> format, testnet |-> testnet, shapes |-> shapes]
          /\ block = Block(blk_in.raw_block, format, 536870912, testnet)
          /\ call = [op |-> "__init__",
                     testnet |-> IF format = "decoded" /\ form # "None" THEN Bool(testnet) ELSE None,
                     given |-> IF format = "decoded" /\ form # "None" THEN Bool(testnet) ELSE None,
                     decodes |-> IF format = "decoded" /\ form # "None" THEN 1 ELSE 0]
    /\ tmpl = None
    /\ ret = None

\* a call of decode, with a testnet flag or without
Decode ==
    /\ block.error = "none"
    /\ \E testnet \in {None, Bool(TRUE), Bool(FALSE)} :
          /\ block' = decode(block, testnet)
          /\ call' = [op |-> "decode", testnet |-> testnet,
                      given |-> IF testnet = None THEN call.given ELSE testnet,
                      decodes |-> IF call.decodes = 0 THEN 1 ELSE 2]
    /\ UNCHANGED <<tmpl, ret, blk_in>>

\* a caller attaches the hash of the next block to a block it holds raw
SetNextBlockHash ==
    /\ block.error = "none"
    /\ block.format = "raw"
    /\ block.nextBlockHash.ty = "absent"
    /\ block' = [block EXCEPT !.nextBlockHash = Bytes([i \in 1..32 |-> B(200 + i)])]
    /\ call' = [op |-> "setitem", testnet |-> None, given |-> call.given,
                decodes |-> call.decodes]
    /\ UNCHANGED <<tmpl, ret, blk_in>>

NextBlock == Decode \/ SetNextBlockHash

SpecBlock == InitBlock /\ [][NextBlock]_vars

(***************************************************************************)
(* Claims about the block.                                                 *)
(***************************************************************************)
Read == block.error = "none" /\ blk_in.raw_block # None

\* C9: a block read from bytes or hex has strippedSize 80 plus the length of
\* the transaction count plus the transactions' stripped sizes, amount the
\* sum of their outputs, size the byte length of the input, and weight
\* strippedSize * 3 + size; without transactions strippedSize is 81 and
\* amount 0.
C9_BlockSizes ==
    Read =>
        LET shapes == blk_in.shapes
            n == Len(shapes)
        IN /\ Len(block.tx) = n
           /\ block.strippedSize = HeaderSize + var_int_len(n)
                  + SumOf([i \in 1..n |-> Len(WireTx(shapes[i], FALSE))])
           /\ block.amount = SumOf([i \in 1..n |-> SumOf(shapes[i].outs)])
           /\ block.size = Len(WireBlock(shapes))
           /\ blk_in.raw_block.ty = "str" => 2 * block.size = Len(blk_in.raw_block.v)
           /\ blk_in.raw_block.ty = "bytes" => block.size = Len(blk_in.raw_block.v)
           /\ block.weight = block.strippedSize * 3 + block.size
           /\ n = 0 => block.strippedSize = HeaderSize + 1 /\ block.amount = 0

C9_Witness ==
    /\ Read
    /\ blk_in.raw_block.ty = "str"
    /\ Len(blk_in.shapes) = MaxBlockTx
    /\ \E i \in 1..Len(blk_in.shapes) : blk_in.shapes[i].segwit
    /\ block.size > block.strippedSize

HashFields == {"hash", "target", "previousBlockHash", "merkleRoot", "bits", "nextBlockHash"}

====
